---- MODULE Spec2Model ----
(***************************************************************************)
(* The 9P2000 server of harvey-os.org/ninep/protocol: the per-connection   *)
(* loop conn.serve and the dispatcher Dispatch (server.go), with the       *)
(* generated Srv* handlers and marshallers modelled from the protocol      *)
(* description.                                                            *)
(***************************************************************************)
EXTENDS Integers, Sequences, FiniteSets, TLC

\* ------------------------------------------------------------------ bounds
\* connection slots; slot 1 is the stream handed to ServeFromRWC
MaxConns == 2
\* frames whose header a connection reads before its stream ends
MaxFrames == 3
\* frames read on the stream of Tversion, Tread and Tflush frames
MaxFlushFrames == 4
\* temporary accept errors in a row on one listener
MaxTempErrors == 9
\* frames read on the stream of Tversion, Tattach, Twalk and Tclunk frames
MaxFidFrames == 4
\* frames read on all the connections of a listener together
MaxServeFrames == 2
\* streams that arrive at a listener whose errors are followed
MaxStreams == 1
\* frames read on all the connections together while Shutdown is followed
MaxShutdownFrames == 1
\* calls of the operations of the tracing wrapper
MaxTraceCalls == 2

Conns == 1..MaxConns

\* --------------------------------------------------------- message types
Tversion == 100
Tauth == 102
Tattach == 104
Terror == 106
Rerror == 107
Tflush == 108
Twalk == 110
Topen == 112
Tcreate == 114
Tread == 116
Twrite == 118
Tclunk == 120
Tremove == 122
Tstat == 124
Twstat == 126
\* a type byte that names no message
Tunknown == 255

\* the T-messages of 9P2000
TTypes == {Tversion, Tauth, Tattach, Terror, Tflush, Twalk, Topen, Tcreate,
           Tread, Twrite, Tclunk, Tremove, Tstat, Twstat}

\* the type bytes a client may put in a header
MTypes == TTypes \cup {Rerror, Tunknown}

RPCNames(t) ==
  CASE t = Tversion -> "Tversion"
    [] t = Tauth -> "Tauth"
    [] t = Tattach -> "Tattach"
    [] t = Terror -> "Terror"
    [] t = Rerror -> "Rerror"
    [] t = Tflush -> "Tflush"
    [] t = Twalk -> "Twalk"
    [] t = Topen -> "Topen"
    [] t = Tcreate -> "Tcreate"
    [] t = Tread -> "Tread"
    [] t = Twrite -> "Twrite"
    [] t = Tclunk -> "Tclunk"
    [] t = Tremove -> "Tremove"
    [] t = Tstat -> "Tstat"
    [] t = Twstat -> "Twstat"
    [] OTHER -> ""

\* ------------------------------------------------------------ the stream
\* the four size bytes a client may send: 4 (< 7), 19, 8200 (> ServerMax)
SizeBytes == {<<4, 0, 0, 0>>, <<19, 0, 0, 0>>, <<8, 32, 0, 0>>}
\* the two tag bytes a client may send: tag 1 and tag 256
TagBytes == {<<1, 0>>, <<0, 1>>}
\* the msize a client may propose in Tversion
ClientMsizes == {19, 16384}
\* the server's msize ceiling, and the msize of a session before Tversion
ServerMax == 8192

Min(a, b) == IF a < b THEN a ELSE b
Max(a, b) == IF a > b THEN a ELSE b

VARIABLES
  pc,         \* position of each connection worker in conn.serve
  dead,       \* conn.dead
  closed,     \* the deferred c.Close() has run
  versioned,  \* conn.server.Versioned
  msize,      \* the session's negotiated msize
  l,          \* the 7 header bytes of the current iteration
  b,          \* the buffer: the request, then the reply that replaces it
  derr,       \* the error the dispatcher returned in this iteration
  srv,        \* the Srv* handlers invoked in this iteration
  ns,         \* the NineServer operations invoked in this iteration
  nsCount,    \* NineServer operations invoked on the connection so far
  reqs,       \* the tags of the frames read on the connection, in order
  wire,       \* the replies written on the connection, in order
  cancelled,  \* cancel() of the worker's context has run
  reqSpan,    \* the request span of the iteration
  spFin,      \* Finish calls on the "connection" span sp
  spanFin,    \* Finish calls on c.span
  fids,       \* the FID table of the session: the file of each bound FID
  lnPc,       \* position of each Serve(ln) call
  tempDelay,  \* Serve's tempDelay, in milliseconds
  nTemp,      \* temporary accept errors in a row since the last success
  lnErr,      \* the error Serve(ln) returns
  lnClosed,   \* Close has been called on the listener
  tracked,    \* NetListener.listeners
  mu,         \* the holder of NetListener.mu
  shPc,       \* position of the Shutdown call
  shSnap,     \* the listeners tracked when Shutdown took the lock
  shErr,      \* the err of closeNetListenersLocked
  shCloses,   \* what the Close calls of Shutdown returned, in order
  trPc,       \* position of the call of the tracing wrapper
  trOp,       \* the operation of the wrapper that is called
  trArgs,     \* its arguments after ctx
  spanName,   \* the name of the span the wrapper started for the call
  spanState,  \* that span: "none", "started", "finished"
  sOp,        \* the operation of the wrapped server the wrapper called
  sArgs,      \* the arguments after ctx it passed
  sN,         \* calls on the wrapped server during the wrapper's call
  sRet,       \* what the wrapped server returned
  trRet,      \* what the wrapper returned
  trN,        \* calls of the wrapper so far
  spanLog     \* the <<operation, span name>> pairs of the spans started

\* the variables of the connections
connVars == <<pc, dead, closed, versioned, msize, l, b, derr, srv, ns, nsCount,
              reqs, wire, cancelled, reqSpan, spFin, spanFin, fids>>

\* the variables of the NetListener
lnVars == <<lnPc, tempDelay, nTemp, lnErr, lnClosed, tracked, mu, shPc, shSnap,
            shErr, shCloses>>

\* the variables of the tracing wrapper
trVars == <<trPc, trOp, trArgs, spanName, spanState, sOp, sArgs, sN, sRet,
            trRet, trN, spanLog>>

vars == <<connVars, lnVars, trVars>>

\* the net.Listeners handed to Serve
Listeners == {"ln1", "ln2"}
\* a nil error
NoErr == "nil"

NoHdr == <<>>
NoBuf == [kind |-> "none"]
NoTag == 0 - 1

\* ------------------------------------------------- header decoding (serve)
\* sz := int64(l[0]) + int64(l[1])<<8 + int64(l[2])<<16 + int64(l[3])<<24
HdrSize(h) == h[1] + h[2] * 256 + h[3] * 65536 + h[4] * 16777216
\* t := MType(l[4])
HdrType(h) == h[5]
\* tag := uint16(l[5]) | uint16(l[6])<<8
HdrTag(h) == h[6] + h[7] * 256

\* r := io.LimitReader(c.Reader, sz-7): the body bytes io.Copy asks for; a
\* limit of zero or less reads nothing
BodyLimit(sz) == Max(sz - 7, 0)

\* b := bytes.NewBuffer(l[5:]), then io.Copy(b, r): the two tag bytes followed
\* by the n body bytes the stream delivered, whose content is body
NewBuffer(h, n, body) ==
  [kind |-> "T", tag |-> <<h[6], h[7]>>, n |-> n, body |-> body]

\* what the body bytes of a frame can hold: the fields of a Tversion, the
\* oldtag of a Tflush, the fid of a Tattach, the fid alone (Tclunk, Tremove,
\* Tstat), the fields of a Twalk (fid, newfid and the number of names), the
\* fields of any other T-message, or bytes that no unmarshaller accepts
Bodies ==
  {[kind |-> "bad"], [kind |-> "plain"]}
    \cup {[kind |-> "version", msize |-> m] : m \in ClientMsizes}
    \cup {[kind |-> "flush", oldtag |-> tb[1] + tb[2] * 256] : tb \in TagBytes}
    \cup {[kind |-> "attach", fid |-> 0], [kind |-> "fid", fid |-> 0]}

\* the body the unmarshaller of the handler named h accepts
BodyKind(h) ==
  CASE h = "SrvRversion" -> "version"
    [] h = "SrvRflush" -> "flush"
    [] h = "SrvRattach" -> "attach"
    [] h = "SrvRwalk" -> "walk"
    [] h \in {"SrvRclunk", "SrvRremove", "SrvRstat"} -> "fid"
    [] OTHER -> "plain"

\* ------------------------------------------------------------- marshalling
\* the tag an unmarshaller reads from the first two bytes of the buffer
BufTag(buf) == buf.tag[1] + buf.tag[2] * 256

\* a reply frame of type rt: bodylen bytes follow the 7 header bytes; the
\* marshaller resets the buffer, writes the frame and patches the size field
Marshal(rt, tag, ename, bodylen, oldtag) ==
  [kind |-> "R", type |-> rt, tag |-> tag, ename |-> ename,
   size |-> 7 + bodylen, len |-> 7 + bodylen, oldtag |-> oldtag, nqid |-> 0]

\* Rerror: size[4] Rerror tag[2] ename[s]
MarshalRerrorPkt(tag, s) == Marshal(Rerror, tag, s, 2 + Len(s), NoTag)

\* ServerError reads the tag from the buffer and marshals an Rerror
ServerError(buf, s) == MarshalRerrorPkt(BufTag(buf), s)

\* the body bytes of the smallest reply of each R-type
RBodyLen(rt) ==
  CASE rt = Tversion + 1 -> 12      \* msize[4] version[s] = "9P2000"
    [] rt = Tattach + 1 -> 13       \* qid[13]
    [] rt = Twalk + 1 -> 2          \* nwqid[2]
    [] rt = Topen + 1 -> 17         \* qid[13] iounit[4]
    [] rt = Tcreate + 1 -> 17       \* qid[13] iounit[4]
    [] rt = Tread + 1 -> 4          \* count[4]
    [] rt = Twrite + 1 -> 4         \* count[4]
    [] rt = Tstat + 1 -> 51         \* n[2] stat[49]
    [] OTHER -> 0                   \* Rflush, Rclunk, Rremove, Rwstat

\* ---------------------------------------------------------------- handlers
\* case Tclunk returns what case Tstat returns
SrvNameClunkAsStat(t) ==
  CASE t = Tversion -> "SrvRversion"
    [] t = Tattach -> "SrvRattach"
    [] t = Tflush -> "SrvRflush"
    [] t = Twalk -> "SrvRwalk"
    [] t = Topen -> "SrvRopen"
    [] t = Tcreate -> "SrvRcreate"
    [] t = Tclunk -> "SrvRstat"
    [] t = Tstat -> "SrvRstat"
    [] t = Twstat -> "SrvRwstat"
    [] t = Tremove -> "SrvRremove"
    [] t = Tread -> "SrvRread"
    [] t = Twrite -> "SrvRwrite"

\* the name of the handler Dispatch routes type t to
SrvName(t) ==
  CASE t = Tversion -> "SrvRversion"
    [] t = Tattach -> "SrvRattach"
    [] t = Tflush -> "SrvRflush"
    [] t = Twalk -> "SrvRwalk"
    [] t = Topen -> "SrvRopen"
    [] t = Tcreate -> "SrvRcreate"
    [] t = Tclunk -> "SrvRclunk"
    [] t = Tstat -> "SrvRstat"
    [] t = Twstat -> "SrvRwstat"
    [] t = Tremove -> "SrvRremove"
    [] t = Tread -> "SrvRread"
    [] t = Twrite -> "SrvRwrite"

\* the NineServer operation the handler named h invokes
NSName(h) ==
  CASE h = "SrvRversion" -> "Rversion"
    [] h = "SrvRattach" -> "Rattach"
    [] h = "SrvRflush" -> "Rflush"
    [] h = "SrvRwalk" -> "Rwalk"
    [] h = "SrvRopen" -> "Ropen"
    [] h = "SrvRcreate" -> "Rcreate"
    [] h = "SrvRclunk" -> "Rclunk"
    [] h = "SrvRstat" -> "Rstat"
    [] h = "SrvRwstat" -> "Rwstat"
    [] h = "SrvRremove" -> "Rremove"
    [] h = "SrvRread" -> "Rread"
    [] h = "SrvRwrite" -> "Rwrite"

\* the R-type the handler named h marshals on success
RTypeOf(h) ==
  CASE h = "SrvRversion" -> Tversion + 1
    [] h = "SrvRattach" -> Tattach + 1
    [] h = "SrvRflush" -> Tflush + 1
    [] h = "SrvRwalk" -> Twalk + 1
    [] h = "SrvRopen" -> Topen + 1
    [] h = "SrvRcreate" -> Tcreate + 1
    [] h = "SrvRclunk" -> Tclunk + 1
    [] h = "SrvRstat" -> Tstat + 1
    [] h = "SrvRwstat" -> Twstat + 1
    [] h = "SrvRremove" -> Tremove + 1
    [] h = "SrvRread" -> Tread + 1
    [] h = "SrvRwrite" -> Twrite + 1

\* the error strings of an unmarshaller and of the backend
DecodeError == "malformed frame"
BackendErrors == {"permission denied"}

\* Version: the server picks min(clientMsize, serverMax)
NegotiatedMsize(m) == Min(m, ServerMax)

\* ------------------------------------------------------------ the session
\* the FIDs a client uses, and the most names a Twalk may carry
FidIds == {0, 1}
MaxWElem == 16
\* the file of an unbound FID; files are named by their depth below the root
NoFile == 0 - 1
Root == 0
\* the empty FID table
NoFids == [f \in FidIds |-> NoFile]

\* an outcome of a session operation: the error string ("" on success), the
\* FID table and the msize afterwards, and the qids returned
Outcome(e, tbl, msz, k) == [ename |-> e, fids |-> tbl, msize |-> msz, nqid |-> k]

\* Version: clears all FIDs
Version(body, tbl, msz) ==
  {Outcome("", NoFids, NegotiatedMsize(body.msize), 0)}
    \cup {Outcome(s, tbl, msz, 0) : s \in BackendErrors}

\* Attach: fid must be absent, and is bound to the root
Attach(body, tbl, msz) ==
  IF tbl[body.fid] # NoFile
  THEN {Outcome("fid in use", tbl, msz, 0)}
  ELSE {Outcome("", [tbl EXCEPT ![body.fid] = Root], msz, 0)}
         \cup {Outcome(s, tbl, msz, 0) : s \in BackendErrors}

\* the numbers of names of a walk of n names that the backend may find
Walked(n) == {k \in {0, 1, n - 1, n} : k >= 0 /\ k <= n}

\* a partial walk binds newfid to the last element it reached
WalkBindsPartial(body, tbl, msz) ==
  IF tbl[body.fid] = NoFile
  THEN {Outcome("unknown fid", tbl, msz, 0)}
  ELSE IF body.newfid # body.fid /\ tbl[body.newfid] # NoFile
  THEN {Outcome("fid in use", tbl, msz, 0)}
  ELSE IF body.n > MaxWElem
  THEN {Outcome("too many names", tbl, msz, 0)}
  ELSE {IF k = 0 /\ body.n > 0 THEN Outcome("file does not exist", tbl, msz, 0)
        ELSE Outcome("", [tbl EXCEPT ![body.newfid] = tbl[body.fid] + k], msz, k)
          : k \in Walked(body.n)}

\* Walk: the first k of the n names exist.  No name walked of n >= 1 is an
\* error; a partial walk returns k qids and binds nothing; a complete walk
\* binds newfid (fid itself when they are equal) to the final element
Walk(body, tbl, msz) ==
  IF tbl[body.fid] = NoFile
  THEN {Outcome("unknown fid", tbl, msz, 0)}
  ELSE IF body.newfid # body.fid /\ tbl[body.newfid] # NoFile
  THEN {Outcome("fid in use", tbl, msz, 0)}
  ELSE IF body.n > MaxWElem
  THEN {Outcome("too many names", tbl, msz, 0)}
  ELSE {IF k = body.n
          THEN Outcome("", [tbl EXCEPT ![body.newfid] = tbl[body.fid] + k], msz, k)
        ELSE IF k = 0 THEN Outcome("file does not exist", tbl, msz, 0)
        ELSE Outcome("", tbl, msz, k) : k \in Walked(body.n)}

\* Clunk and Remove: the fid is removed whether or not the backend succeeds
Clunk(body, tbl, msz) ==
  IF tbl[body.fid] = NoFile
  THEN {Outcome("unknown fid", tbl, msz, 0)}
  ELSE {Outcome(s, [tbl EXCEPT ![body.fid] = NoFile], msz, 0)
          : s \in {""} \cup BackendErrors}

\* Stat: the fid must be bound
Stat(body, tbl, msz) ==
  IF tbl[body.fid] = NoFile
  THEN {Outcome("unknown fid", tbl, msz, 0)}
  ELSE {Outcome(s, tbl, msz, 0) : s \in {""} \cup BackendErrors}

\* the other operations leave the FID table as it is
Other(body, tbl, msz) == {Outcome(s, tbl, msz, 0) : s \in {""} \cup BackendErrors}

\* the NineServer operation named op
NSOp(op, body, tbl, msz) ==
  CASE op = "Rversion" -> Version(body, tbl, msz)
    [] op = "Rattach" -> Attach(body, tbl, msz)
    [] op = "Rwalk" -> Walk(body, tbl, msz)
    [] op \in {"Rclunk", "Rremove"} -> Clunk(body, tbl, msz)
    [] op = "Rstat" -> Stat(body, tbl, msz)
    [] OTHER -> Other(body, tbl, msz)

\* The handler Dispatch routes T-type t to, on the buffer buf of a session
\* whose msize is msz and FID table tbl: the set of its possible outcomes.
\* It unmarshals the body; when that fails it marshals an Rerror and the
\* NineServer is not called; otherwise it calls its NineServer operation, and
\* marshals the R-message of the handler, or an Rerror with the error
\* string.  out.err is the error the handler returns.
SrvR(t, msz, tbl, buf) ==
  LET h == SrvName(t)
      tag == BufTag(buf)
      decoded == buf.n > 0 /\ buf.body.kind = BodyKind(h)
  IN  IF ~decoded
      THEN {[b |-> MarshalRerrorPkt(tag, DecodeError), err |-> e,
             srv |-> <<h>>, ns |-> <<>>, msize |-> msz, fids |-> tbl]
              : e \in BOOLEAN}
      ELSE UNION {
             IF o.ename # ""
             THEN {[b |-> MarshalRerrorPkt(tag, o.ename), err |-> e,
                    srv |-> <<h>>, ns |-> <<NSName(h)>>, msize |-> o.msize,
                    fids |-> o.fids] : e \in BOOLEAN}
             ELSE {[b |-> [Marshal(RTypeOf(h), tag, "",
                                   RBodyLen(RTypeOf(h)) + 13 * o.nqid,
                                   IF h = "SrvRflush" THEN buf.body.oldtag
                                   ELSE NoTag)
                           EXCEPT !.nqid = o.nqid],
                    err |-> FALSE, srv |-> <<h>>, ns |-> <<NSName(h)>>,
                    msize |-> o.msize, fids |-> o.fids]}
             : o \in NSOp(NSName(h), buf.body, tbl, msz)}

\* ---------------------------------------------------------------- Dispatch
\* the types of the second switch of Dispatch
RoutedTypes == {Tversion, Tattach, Tflush, Twalk, Topen, Tcreate, Tclunk,
                Tstat, Twstat, Tremove, Tread, Twrite}

\* the assignment of the first switch is missing
SetsVersionedNever(t) == FALSE

\* first switch, case Tversion: s.Versioned = true
SetsVersioned(t) == t = Tversion

\* the gate rejects every message of a session that is not versioned
GatedAll(t, v) == ~v

\* the gate lets Tattach through
GatedButAttach(t, v) == t # Tversion /\ t # Tattach /\ ~v

\* first switch, default: if !s.Versioned
Gated(t, v) == t # Tversion /\ ~v

\* the tag bytes taken in the wrong order
GateTagBigEndian(d) == d[1] * 256 + d[2]

\* Tag(d[0])|Tag(d[1])<<8 of d := b.Bytes()
GateTag(d) == d[1] + d[2] * 256

\* fmt.Sprintf("Dispatch: %v not allowed before Tversion", RPCNames[t])
GateMsg(t) == "Dispatch: " \o RPCNames(t) \o " not allowed before Tversion"

\* fmt.Sprintf("Dispatch: %v not supported", RPCNames[t])
UnsupportedMsg(t) == "Dispatch: " \o RPCNames(t) \o " not supported"

\* Dispatch returns an error after ServerError
UnsupportedErrSet == TRUE

\* what Dispatch returns after ServerError
UnsupportedErr == FALSE

\* Dispatch(ctx, s, b, t) on a session whose flag is v, msize msz and FID
\* table tbl: the set of its possible outcomes (the new flag, the buffer, the
\* returned error, the handlers and NineServer operations invoked, the new
\* msize and FID table)
Dispatch(v, msz, tbl, buf, t) ==
  IF Gated(t, v)
  THEN {[versioned |-> v, b |-> MarshalRerrorPkt(GateTag(buf.tag), GateMsg(t)),
         err |-> TRUE, srv |-> <<>>, ns |-> <<>>, msize |-> msz, fids |-> tbl]}
  ELSE LET v1 == IF SetsVersioned(t) THEN TRUE ELSE v
       IN  IF t \in RoutedTypes
           THEN {[versioned |-> v1, b |-> o.b, err |-> o.err, srv |-> o.srv,
                  ns |-> o.ns, msize |-> o.msize, fids |-> o.fids]
                   : o \in SrvR(t, msz, tbl, buf)}
           ELSE {[versioned |-> v1, b |-> ServerError(buf, UnsupportedMsg(t)),
                  err |-> UnsupportedErr, srv |-> <<>>, ns |-> <<>>,
                  msize |-> msz, fids |-> tbl]}

\* -------------------------------------------------------------- conn.serve
\* the body lengths at which a stream may end before the limit is reached
TruncLens == {0, 2}

\* serve skips the write of a request whose dispatch returned an error
AfterDispatchContinue(err) == IF err THEN "readHeader" ELSE "write"

\* serve returns when the dispatcher has returned an error
AfterDispatchReturn(err) == IF err THEN "done" ELSE "write"

\* where serve goes when the dispatcher has returned err: the error is only
\* logged, and the reply buffer is written
AfterDispatch(err) == "write"

\* the return after a write error is missing
AfterWriteNoReturn(werr) == "wrote"

\* where serve goes when c.Write has returned werr
AfterWrite(werr) == IF werr THEN "done" ELSE "wrote"

\* where serve goes when the header read has failed or was short
AfterShortRead == "done"

\* the entry of the written log for the reply buffer buf of request number n
WireEntry(n, buf) == [seq |-> n, tag |-> buf.tag, oldtag |-> buf.oldtag]

\* the defer of cancel is missing
DefersNoCancel == <<"c.span.Finish", "sp.Finish", "c.Close">>

\* the deferred calls of serve, in the order in which they run when it
\* returns (the reverse of the order of the defer statements)
Defers == <<"c.span.Finish", "sp.Finish", "cancel", "c.Close">>

\* how many times the deferred calls of ds call f
RECURSIVE Calls(_, _)
Calls(ds, f) ==
  IF ds = <<>> THEN 0
  ELSE (IF Head(ds) = f THEN 1 ELSE 0) + Calls(Tail(ds), f)

\* span.Finish() on a span in state s
Finish(s) == IF s = "started" THEN "finished" ELSE "finished twice"

\* the request span when the body read has failed: serve returns without a
\* call on it
AfterBodyError(s) == s

\* the sp.Finish() calls that serve makes itself before it returns on a write
\* error
WriteErrorSpFinish == 1

\* serve returns on connection c, after n calls of sp.Finish() of its own:
\* the deferred calls run
Return(c, n) ==
  /\ closed' = [closed EXCEPT ![c] = Calls(Defers, "c.Close") > 0]
  /\ cancelled' = [cancelled EXCEPT ![c] = Calls(Defers, "cancel") > 0]
  /\ spFin' = [spFin EXCEPT ![c] = @ + n + Calls(Defers, "sp.Finish")]
  /\ spanFin' = [spanFin EXCEPT ![c] = @ + Calls(Defers, "c.span.Finish")]

\* every conn points to one Server shared by all
ServerOfShared(c) == 1

\* the session of connection c: newConn and ServeFromRWC build a new Server
\* for each conn
ServerOf(c) == c

\* a result or an argument list that does not exist (yet)
NoCall == <<>>
NoRet == [vals |-> 0 - 1, err |-> "none"]

\* TraceNineServer(s) has returned &tracer{s}: no operation called yet
TraceInit ==
  /\ trPc = "idle"
  /\ trOp = "none"
  /\ trArgs = NoCall
  /\ spanName = "none"
  /\ spanState = "none"
  /\ sOp = "none"
  /\ sArgs = NoCall
  /\ sN = 0
  /\ sRet = NoRet
  /\ trRet = NoRet
  /\ trN = 0
  /\ spanLog = {}

\* ServeFromRWC has built the conn of slot 1 and entered c.serve(); the other
\* slots hold no connection
Init ==
  /\ pc = [c \in Conns |-> IF c = 1 THEN "readHeader" ELSE "idle"]
  /\ dead = [c \in Conns |-> FALSE]
  /\ closed = [c \in Conns |-> FALSE]
  /\ versioned = [c \in Conns |-> FALSE]
  /\ msize = [c \in Conns |-> ServerMax]
  /\ l = [c \in Conns |-> NoHdr]
  /\ b = [c \in Conns |-> NoBuf]
  /\ derr = [c \in Conns |-> FALSE]
  /\ srv = [c \in Conns |-> <<>>]
  /\ ns = [c \in Conns |-> <<>>]
  /\ nsCount = [c \in Conns |-> 0]
  /\ reqs = [c \in Conns |-> <<>>]
  /\ wire = [c \in Conns |-> <<>>]
  /\ cancelled = [c \in Conns |-> FALSE]
  /\ reqSpan = [c \in Conns |-> "none"]
  /\ spFin = [c \in Conns |-> 0]
  /\ spanFin = [c \in Conns |-> 0]
  /\ fids = [c \in Conns |-> NoFids]
  /\ lnPc = [ln \in Listeners |-> "idle"]
  /\ tempDelay = [ln \in Listeners |-> 0]
  /\ nTemp = [ln \in Listeners |-> 0]
  /\ lnErr = [ln \in Listeners |-> NoErr]
  /\ lnClosed = [ln \in Listeners |-> FALSE]
  /\ tracked = {}
  /\ mu = "free"
  /\ shPc = "idle"
  /\ shSnap = {}
  /\ shErr = NoErr
  /\ shCloses = <<>>
  /\ TraceInit

\* the frames read so far on the connections 1..n
RECURSIVE FramesRead(_)
FramesRead(n) == IF n = 0 THEN 0 ELSE Len(reqs[n]) + FramesRead(n - 1)

\* c.Read(l) returns the 7 header bytes of the next frame, with size bytes
\* from sizes, a type byte from types and tag bytes from tags, on a stream of
\* at most max frames, while the streams together carry at most total frames
ReadHeaderFrom(c, sizes, types, tags, max, total) ==
  /\ pc[c] = "readHeader"
  /\ ~dead[c]
  /\ Len(reqs[c]) < max
  /\ FramesRead(MaxConns) < total
  /\ \E szb \in sizes, t \in types, tb \in tags :
       LET h == szb \o <<t>> \o tb
       IN  /\ l' = [l EXCEPT ![c] = h]
           /\ reqs' = [reqs EXCEPT ![c] = Append(@, HdrTag(h))]
  /\ reqSpan' = [reqSpan EXCEPT ![c] = "started"]
  /\ pc' = [pc EXCEPT ![c] = "readBody"]
  /\ UNCHANGED <<dead, closed, versioned, msize, b, derr, srv, ns, nsCount, wire>>
  /\ UNCHANGED <<cancelled, spFin, spanFin, fids>>
  /\ UNCHANGED lnVars
  /\ UNCHANGED trVars

ReadHeader(c) == ReadHeaderFrom(c, SizeBytes, MTypes, TagBytes, MaxFrames, MaxFrames)

\* c.Read(l) fails or returns fewer than 7 bytes
ShortRead(c) ==
  /\ pc[c] = "readHeader"
  /\ ~dead[c]
  /\ dead' = [dead EXCEPT ![c] = TRUE]
  /\ pc' = [pc EXCEPT ![c] = AfterShortRead]
  /\ IF AfterShortRead = "done" THEN Return(c, 0)
     ELSE UNCHANGED <<closed, cancelled, spFin, spanFin>>
  /\ UNCHANGED <<versioned, msize, l, b, derr, srv, ns, nsCount, reqs, wire>>
  /\ UNCHANGED <<reqSpan, fids>>
  /\ UNCHANGED lnVars
  /\ UNCHANGED trVars

\* io.Copy(b, r) returns nil: the limit was reached, or the stream ended
\* before it, at one of the lengths of truncs; the bytes read hold one of
\* bodies
ReadBodyFrom(c, bodies, truncs) ==
  /\ pc[c] = "readBody"
  /\ LET lim == BodyLimit(HdrSize(l[c]))
     IN  \E n \in {lim} \cup {k \in truncs : k < lim}, body \in bodies :
           /\ n = 0 => body.kind = "bad"
           /\ b' = [b EXCEPT ![c] = NewBuffer(l[c], n, body)]
  /\ pc' = [pc EXCEPT ![c] = "dispatch"]
  /\ UNCHANGED <<dead, closed, versioned, msize, l, derr, srv, ns, nsCount, reqs, wire>>
  /\ UNCHANGED <<cancelled, reqSpan, spFin, spanFin, fids>>
  /\ UNCHANGED lnVars
  /\ UNCHANGED trVars

ReadBody(c) == ReadBodyFrom(c, Bodies, TruncLens)

\* io.Copy(b, r) returns an error: a read of the stream has failed, which
\* takes a limit above zero
BodyReadError(c) ==
  /\ pc[c] = "readBody"
  /\ BodyLimit(HdrSize(l[c])) > 0
  /\ dead' = [dead EXCEPT ![c] = TRUE]
  /\ pc' = [pc EXCEPT ![c] = "done"]
  /\ Return(c, 0)
  /\ reqSpan' = [reqSpan EXCEPT ![c] = AfterBodyError(@)]
  /\ UNCHANGED <<versioned, msize, l, b, derr, srv, ns, nsCount, reqs, wire>>
  /\ UNCHANGED fids
  /\ UNCHANGED lnVars
  /\ UNCHANGED trVars

\* c.server.D(ctx, c.server, b, t)
DispatchStep(c) ==
  /\ pc[c] = "dispatch"
  /\ \E o \in Dispatch(versioned[ServerOf(c)], msize[c], fids[c], b[c],
                        HdrType(l[c])) :
       /\ fids' = [fids EXCEPT ![c] = o.fids]
       /\ versioned' = [versioned EXCEPT ![ServerOf(c)] = o.versioned]
       /\ msize' = [msize EXCEPT ![c] = o.msize]
       /\ b' = [b EXCEPT ![c] = o.b]
       /\ derr' = [derr EXCEPT ![c] = o.err]
       /\ srv' = [srv EXCEPT ![c] = o.srv]
       /\ ns' = [ns EXCEPT ![c] = o.ns]
       /\ nsCount' = [nsCount EXCEPT ![c] = @ + Len(o.ns)]
       /\ pc' = [pc EXCEPT ![c] = AfterDispatch(o.err)]
  /\ UNCHANGED <<dead, closed, l, reqs, wire>>
  /\ UNCHANGED <<cancelled, reqSpan, spFin, spanFin>>
  /\ UNCHANGED lnVars
  /\ UNCHANGED trVars

\* c.Write(b.Bytes()) returns nil
Write(c) ==
  /\ pc[c] = "write"
  /\ wire' = [wire EXCEPT ![c] = Append(@, WireEntry(Len(reqs[c]), b[c]))]
  /\ pc' = [pc EXCEPT ![c] = AfterWrite(FALSE)]
  /\ UNCHANGED <<dead, closed, versioned, msize, l, b, derr, srv, ns, nsCount, reqs>>
  /\ UNCHANGED <<cancelled, reqSpan, spFin, spanFin, fids>>
  /\ UNCHANGED lnVars
  /\ UNCHANGED trVars

\* c.Write(b.Bytes()) returns an error
WriteError(c) ==
  /\ pc[c] = "write"
  /\ dead' = [dead EXCEPT ![c] = TRUE]
  /\ pc' = [pc EXCEPT ![c] = AfterWrite(TRUE)]
  /\ reqSpan' = [reqSpan EXCEPT ![c] = Finish(@)]
  /\ IF AfterWrite(TRUE) = "done" THEN Return(c, WriteErrorSpFinish)
     ELSE /\ spFin' = [spFin EXCEPT ![c] = @ + WriteErrorSpFinish]
          /\ UNCHANGED <<closed, cancelled, spanFin>>
  /\ UNCHANGED <<versioned, msize, l, b, derr, srv, ns, nsCount, reqs, wire>>
  /\ UNCHANGED fids
  /\ UNCHANGED lnVars
  /\ UNCHANGED trVars

\* reqSpan.Finish() and back to the loop condition: the locals of the
\* iteration are gone
Loop(c) ==
  /\ pc[c] = "wrote"
  /\ pc' = [pc EXCEPT ![c] = "readHeader"]
  /\ l' = [l EXCEPT ![c] = NoHdr]
  /\ b' = [b EXCEPT ![c] = NoBuf]
  /\ derr' = [derr EXCEPT ![c] = FALSE]
  /\ srv' = [srv EXCEPT ![c] = <<>>]
  /\ ns' = [ns EXCEPT ![c] = <<>>]
  /\ reqSpan' = [reqSpan EXCEPT ![c] = Finish(@)]
  /\ UNCHANGED <<dead, closed, versioned, msize, nsCount, reqs, wire>>
  /\ UNCHANGED <<cancelled, spFin, spanFin, fids>>
  /\ UNCHANGED lnVars
  /\ UNCHANGED trVars

Next ==
  \E c \in Conns :
    \/ ReadHeader(c)
    \/ ShortRead(c)
    \/ ReadBody(c)
    \/ BodyReadError(c)
    \/ DispatchStep(c)
    \/ Write(c)
    \/ WriteError(c)
    \/ Loop(c)

Spec == Init /\ [][Next]_vars

\* The same connection fed well-sized Tversion, Tread and Tflush frames only,
\* on a longer stream.
FlushSizes == {<<19, 0, 0, 0>>}
FlushTypes == {Tversion, Tread, Tflush}

ReadFlushHeader(c) ==
  ReadHeaderFrom(c, FlushSizes, FlushTypes, TagBytes, MaxFlushFrames, MaxFlushFrames)

NextFlush ==
  \E c \in Conns :
    \/ ReadFlushHeader(c)
    \/ ShortRead(c)
    \/ ReadBody(c)
    \/ BodyReadError(c)
    \/ DispatchStep(c)
    \/ Write(c)
    \/ WriteError(c)
    \/ Loop(c)

SpecFlush == Init /\ [][NextFlush]_vars

\* ------------------------------------------------------------- NetListener
\* tempDelay = 5 * time.Millisecond, and max := 1 * time.Second, in ms
FirstDelay == 5
MaxDelay == 1000

\* the errors of ln.Accept() that are not temporary
AcceptErrors == {"accept: invalid argument", "use of closed network connection"}
\* the error of ln.Close() on listener ln
CloseError(ln) == "close " \o ln

\* the delay doubles without a ceiling
NextDelayNoCap(d) == IF d = 0 THEN FirstDelay ELSE d * 2

\* the delay after one more temporary error: 5 ms at first, then doubled,
\* and never more than max
NextDelay(d) ==
  LET d1 == IF d = 0 THEN FirstDelay ELSE d * 2
  IN  IF d1 > MaxDelay THEN MaxDelay ELSE d1

\* the delay is kept after a successful accept
AcceptedDelayKept(d) == d

\* tempDelay = 0 after a successful accept
AcceptedDelay(d) == 0

\* Serve sleeps and retries on every accept error
AfterAcceptErrorRetry(temporary) == "sleep"

\* where Serve goes after an accept error: it sleeps when the error is
\* temporary, and returns (through its deferred calls) when it is not
AfterAcceptError(temporary) == IF temporary THEN "sleep" ELSE "untrack"

\* Serve(ln) starts: tempDelay is zero and trackNetListener(ln, true) adds ln
\* to the tracked set under the lock
ServeStart(ln) ==
  /\ lnPc[ln] = "idle"
  /\ mu = "free"
  /\ tracked' = tracked \cup {ln}
  /\ tempDelay' = [tempDelay EXCEPT ![ln] = 0]
  /\ lnPc' = [lnPc EXCEPT ![ln] = "accept"]
  /\ UNCHANGED <<nTemp, lnErr, lnClosed, mu, shPc, shSnap, shErr,
                 shCloses>>
  /\ UNCHANGED connVars
  /\ UNCHANGED trVars

\* ln.Accept() returns a temporary error, at most max times in a row: the
\* delay grows and Serve goes to sleep
AcceptTemporary(ln, max) ==
  /\ lnPc[ln] = "accept"
  /\ ~lnClosed[ln]
  /\ nTemp[ln] < max
  /\ tempDelay' = [tempDelay EXCEPT ![ln] = NextDelay(@)]
  /\ nTemp' = [nTemp EXCEPT ![ln] = @ + 1]
  /\ lnPc' = [lnPc EXCEPT ![ln] = AfterAcceptError(TRUE)]
  /\ UNCHANGED <<lnErr, lnClosed, tracked, mu, shPc, shSnap, shErr,
                 shCloses>>
  /\ UNCHANGED connVars
  /\ UNCHANGED trVars

\* time.Sleep(tempDelay) returns; continue
Wake(ln) ==
  /\ lnPc[ln] = "sleep"
  /\ lnPc' = [lnPc EXCEPT ![ln] = "accept"]
  /\ UNCHANGED <<tempDelay, nTemp, lnErr, lnClosed, tracked, mu, shPc, shSnap,
                 shErr, shCloses>>
  /\ UNCHANGED connVars
  /\ UNCHANGED trVars

\* ln.Accept() returns an error that is not temporary (the only outcome on a
\* closed listener): return err
AcceptFails(ln) ==
  /\ lnPc[ln] = "accept"
  /\ \E e \in AcceptErrors :
       /\ lnClosed[ln] => e = "use of closed network connection"
       /\ lnErr' = [lnErr EXCEPT ![ln] = e]
  /\ lnPc' = [lnPc EXCEPT ![ln] = AfterAcceptError(FALSE)]
  /\ UNCHANGED <<tempDelay, nTemp, lnClosed, tracked, mu, shPc, shSnap, shErr,
                 shCloses>>
  /\ UNCHANGED connVars
  /\ UNCHANGED trVars

\* the deferred l.trackNetListener(ln, false), under the lock
Untrack(ln) ==
  /\ lnPc[ln] = "untrack"
  /\ mu = "free"
  /\ tracked' = tracked \ {ln}
  /\ lnPc' = [lnPc EXCEPT ![ln] = "close"]
  /\ UNCHANGED <<tempDelay, nTemp, lnErr, lnClosed, mu, shPc, shSnap, shErr,
                 shCloses>>
  /\ UNCHANGED connVars
  /\ UNCHANGED trVars

\* the deferred ln.Close(); Serve has returned
DeferredClose(ln) ==
  /\ lnPc[ln] = "close"
  /\ lnClosed' = [lnClosed EXCEPT ![ln] = TRUE]
  /\ lnPc' = [lnPc EXCEPT ![ln] = "returned"]
  /\ UNCHANGED <<tempDelay, nTemp, lnErr, tracked, mu, shPc, shSnap, shErr,
                 shCloses>>
  /\ UNCHANGED connVars
  /\ UNCHANGED trVars

\* ln.Accept() returns a stream (at most maxc streams arrive): tempDelay = 0,
\* and l.Accept(conn) builds the conn of the first free slot with a new Server
\* and starts its worker
AcceptConn(ln, maxc) ==
  /\ lnPc[ln] = "accept"
  /\ ~lnClosed[ln]
  /\ Cardinality({c \in Conns : pc[c] # "idle"}) < maxc
  /\ \E c \in Conns :
       /\ pc[c] = "idle"
       /\ \A d \in Conns : d < c => pc[d] # "idle"
       /\ pc' = [pc EXCEPT ![c] = "readHeader"]
       /\ versioned' = [versioned EXCEPT ![ServerOf(c)] = FALSE]
  /\ tempDelay' = [tempDelay EXCEPT ![ln] = AcceptedDelay(@)]
  /\ nTemp' = [nTemp EXCEPT ![ln] = 0]
  /\ UNCHANGED <<lnPc, lnErr, lnClosed, tracked, mu, shPc, shSnap, shErr,
                 shCloses>>
  /\ UNCHANGED <<dead, closed, msize, l, b, derr, srv, ns, nsCount, reqs, wire>>
  /\ UNCHANGED <<cancelled, reqSpan, spFin, spanFin, fids>>
  /\ UNCHANGED trVars

\* Shutdown takes the lock
ShutdownLock ==
  /\ shPc = "idle"
  /\ mu = "free"
  /\ mu' = "Shutdown"
  /\ shSnap' = tracked
  /\ shPc' = "closing"
  /\ UNCHANGED <<lnPc, tempDelay, nTemp, lnErr, lnClosed, tracked, shErr,
                 shCloses>>
  /\ UNCHANGED connVars
  /\ UNCHANGED trVars

\* the close error is dropped
FirstErrorNone(err, cerr) == NoErr

\* if cerr != nil && err == nil { err = cerr }
FirstError(err, cerr) == IF cerr # NoErr /\ err = NoErr THEN cerr ELSE err

\* one iteration of closeNetListenersLocked: ln.Close(), which may fail, and
\* delete(l.listeners, ln)
ShutdownClose(ln) ==
  /\ shPc = "closing"
  /\ ln \in tracked
  /\ \E cerr \in {NoErr, CloseError(ln)} :
       /\ shErr' = FirstError(shErr, cerr)
       /\ shCloses' = Append(shCloses, cerr)
  /\ lnClosed' = [lnClosed EXCEPT ![ln] = TRUE]
  /\ tracked' = tracked \ {ln}
  /\ UNCHANGED <<lnPc, tempDelay, nTemp, lnErr, mu, shPc, shSnap>>
  /\ UNCHANGED connVars
  /\ UNCHANGED trVars

\* the range loop is over: Shutdown returns err and releases the lock
ShutdownReturn ==
  /\ shPc = "closing"
  /\ tracked = {}
  /\ mu' = "free"
  /\ shPc' = "returned"
  /\ UNCHANGED <<lnPc, tempDelay, nTemp, lnErr, lnClosed, tracked, shSnap, shErr,
                 shCloses>>
  /\ UNCHANGED connVars
  /\ UNCHANGED trVars

\* The connection of ServeFromRWC fed well-sized Tversion, Tattach, Twalk and
\* Tclunk frames with tag 1, whose bodies are well formed.
FidTypes == {Tversion, Tattach, Twalk, Tclunk}
\* the tag bytes of the streams on which the tag does not matter
ServeTags == {<<1, 0>>}
\* the numbers of names of the Twalk frames
WalkLens == {0, 2, 16, 17}
FidBodies ==
  {[kind |-> "version", msize |-> 16384]}
    \cup {[kind |-> "attach", fid |-> f] : f \in FidIds}
    \cup {[kind |-> "fid", fid |-> f] : f \in FidIds}
    \cup {[kind |-> "walk", fid |-> f, newfid |-> g, n |-> n]
            : f \in FidIds, g \in FidIds, n \in WalkLens}

ReadFidHeader(c) ==
  ReadHeaderFrom(c, FlushSizes, FidTypes, ServeTags, MaxFidFrames, MaxFidFrames)

ReadFidBody(c) == ReadBodyFrom(c, FidBodies, {})

NextFid ==
  \E c \in Conns :
    \/ ReadFidHeader(c)
    \/ ShortRead(c)
    \/ ReadFidBody(c)
    \/ BodyReadError(c)
    \/ DispatchStep(c)
    \/ Write(c)
    \/ WriteError(c)
    \/ Loop(c)

SpecFid == Init /\ [][NextFid]_vars

\* NewNetListener has returned: no Serve call yet, and no connection
InitServe ==
  /\ pc = [c \in Conns |-> "idle"]
  /\ dead = [c \in Conns |-> FALSE]
  /\ closed = [c \in Conns |-> FALSE]
  /\ versioned = [c \in Conns |-> FALSE]
  /\ msize = [c \in Conns |-> ServerMax]
  /\ l = [c \in Conns |-> NoHdr]
  /\ b = [c \in Conns |-> NoBuf]
  /\ derr = [c \in Conns |-> FALSE]
  /\ srv = [c \in Conns |-> <<>>]
  /\ ns = [c \in Conns |-> <<>>]
  /\ nsCount = [c \in Conns |-> 0]
  /\ reqs = [c \in Conns |-> <<>>]
  /\ wire = [c \in Conns |-> <<>>]
  /\ cancelled = [c \in Conns |-> FALSE]
  /\ reqSpan = [c \in Conns |-> "none"]
  /\ spFin = [c \in Conns |-> 0]
  /\ spanFin = [c \in Conns |-> 0]
  /\ fids = [c \in Conns |-> NoFids]
  /\ lnPc = [ln \in Listeners |-> "idle"]
  /\ tempDelay = [ln \in Listeners |-> 0]
  /\ nTemp = [ln \in Listeners |-> 0]
  /\ lnErr = [ln \in Listeners |-> NoErr]
  /\ lnClosed = [ln \in Listeners |-> FALSE]
  /\ tracked = {}
  /\ mu = "free"
  /\ shPc = "idle"
  /\ shSnap = {}
  /\ shErr = NoErr
  /\ shCloses = <<>>
  /\ TraceInit

\* One Serve call with its accept errors; at most MaxStreams streams arrive,
\* which carry well-sized Tversion frames with tag 1, at most MaxServeFrames
\* in all.
ServeTypes == {Tversion}
ServeBodies == {[kind |-> "attach", fid |-> 0], [kind |-> "version", msize |-> 16384]}

ReadServeHeader(c) ==
  ReadHeaderFrom(c, FlushSizes, ServeTypes, ServeTags, MaxServeFrames,
                 MaxServeFrames)

ReadServeBody(c) == ReadBodyFrom(c, ServeBodies, {})

NextServe ==
  \/ \E ln \in {"ln1"} :
       \/ ServeStart(ln)
       \/ AcceptTemporary(ln, MaxTempErrors)
       \/ Wake(ln)
       \/ AcceptFails(ln)
       \/ Untrack(ln)
       \/ DeferredClose(ln)
       \/ AcceptConn(ln, MaxStreams)
  \/ \E c \in Conns :
       \/ ReadServeHeader(c)
       \/ ShortRead(c)
       \/ ReadServeBody(c)
       \/ BodyReadError(c)
       \/ DispatchStep(c)
       \/ Write(c)
       \/ WriteError(c)
       \/ Loop(c)

SpecServe == InitServe /\ [][NextServe]_vars

\* Serve calls on both listeners and a Shutdown call; at most MaxStreams
\* streams arrive, which carry at most MaxShutdownFrames Tversion frames in
\* all.
ReadShutdownHeader(c) ==
  ReadHeaderFrom(c, FlushSizes, ServeTypes, ServeTags, MaxShutdownFrames,
                 MaxShutdownFrames)

NextShutdown ==
  \/ \E ln \in Listeners :
       \/ ServeStart(ln)
       \/ AcceptFails(ln)
       \/ Untrack(ln)
       \/ DeferredClose(ln)
       \/ AcceptConn(ln, MaxStreams)
       \/ ShutdownClose(ln)
  \/ ShutdownLock
  \/ ShutdownReturn
  \/ \E c \in Conns :
       \/ ReadShutdownHeader(c)
       \/ ShortRead(c)
       \/ ReadServeBody(c)
       \/ BodyReadError(c)
       \/ DispatchStep(c)
       \/ Write(c)
       \/ WriteError(c)
       \/ Loop(c)

SpecShutdown == InitServe /\ [][NextShutdown]_vars

\* One Serve call without accept errors; a stream arrives for every
\* connection slot, and the streams carry Tversion and Tattach frames.
SessionTypes == {Tversion, Tattach}

ReadSessionHeader(c) ==
  ReadHeaderFrom(c, FlushSizes, SessionTypes, ServeTags, MaxServeFrames,
                 MaxServeFrames)

NextSessions ==
  \/ \E ln \in {"ln1"} :
       \/ ServeStart(ln)
       \/ AcceptConn(ln, MaxConns)
  \/ \E c \in Conns :
       \/ ReadSessionHeader(c)
       \/ ShortRead(c)
       \/ ReadServeBody(c)
       \/ BodyReadError(c)
       \/ DispatchStep(c)
       \/ Write(c)
       \/ WriteError(c)
       \/ Loop(c)

SpecSessions == InitServe /\ [][NextSessions]_vars

\* ------------------------------------------------- tracer (ninep/trace.go)
\* the operations of NineServer that the wrapper implements
TraceOps == {"Rversion", "Rattach", "Rwalk", "Ropen", "Rcreate", "Rstat",
             "Rwstat", "Rclunk", "Rremove", "Rread", "Rwrite", "Rflush"}

\* the number of parameters of each operation after ctx
Arity(op) ==
  CASE op = "Rversion" -> 2
    [] op = "Rattach" -> 4
    [] op = "Rwalk" -> 3
    [] op = "Ropen" -> 2
    [] op = "Rcreate" -> 4
    [] op = "Rstat" -> 1
    [] op = "Rwstat" -> 2
    [] op = "Rclunk" -> 1
    [] op = "Rremove" -> 1
    [] op = "Rread" -> 3
    [] op = "Rwrite" -> 3
    [] op = "Rflush" -> 1

\* the values an argument or a result takes
ArgValues == {0, 1}
\* the errors the wrapped server returns; the first is nil
ServerErrors == {NoErr, "permission denied"}

\* the argument lists of operation op
ArgLists(op) == [1..Arity(op) -> ArgValues]

\* the operation name given to opentracing.StartSpanFromContext by the
\* wrapper of operation op
SpanName(op) ==
  CASE op = "Rversion" -> "Rversion"
    [] op = "Rattach" -> "Rattach"
    [] op = "Rwalk" -> "Rwalk"
    [] op = "Ropen" -> "Ropen"
    [] op = "Rcreate" -> "Rcreate"
    [] op = "Rstat" -> "Rstat"
    [] op = "Rwstat" -> "Rstat"
    [] op = "Rclunk" -> "Rclunk"
    [] op = "Rremove" -> "Rremove"
    [] op = "Rread" -> "Rread"
    [] op = "Rwrite" -> "Rwrite"
    [] op = "Rflush" -> "Rflush"

\* the wrapper of Rwstat calls t.s.Rstat
InnerOpWstatAsStat(op) == IF op = "Rwstat" THEN "Rstat" ELSE op

\* the operation of t.s that the wrapper of operation op calls
InnerOp(op) ==
  CASE op = "Rversion" -> "Rversion"
    [] op = "Rattach" -> "Rattach"
    [] op = "Rwalk" -> "Rwalk"
    [] op = "Ropen" -> "Ropen"
    [] op = "Rcreate" -> "Rcreate"
    [] op = "Rstat" -> "Rstat"
    [] op = "Rwstat" -> "Rwstat"
    [] op = "Rclunk" -> "Rclunk"
    [] op = "Rremove" -> "Rremove"
    [] op = "Rread" -> "Rread"
    [] op = "Rwrite" -> "Rwrite"
    [] op = "Rflush" -> "Rflush"

\* the arguments after ctx that the wrapper of op, called with a, passes to
\* t.s: its own parameters, in their order
PassArgs(op, a) == a

\* what the wrapper returns when t.s has returned r: `return t.s.Op(...)`
Returned(r) == r

\* an operation of the wrapper is called: it starts its span and defers
\* span.Finish()
TraceCall ==
  /\ trPc = "idle"
  /\ trN < MaxTraceCalls
  /\ \E op \in TraceOps :
       /\ trOp' = op
       /\ \E a \in ArgLists(op) : trArgs' = a
       /\ spanName' = SpanName(op)
       /\ spanLog' = spanLog \cup {<<op, SpanName(op)>>}
  /\ spanState' = "started"
  /\ trN' = trN + 1
  /\ trPc' = "inner"
  /\ sOp' = "none" /\ sArgs' = NoCall /\ sN' = 0
  /\ sRet' = NoRet /\ trRet' = NoRet
  /\ UNCHANGED <<connVars, lnVars>>

\* the wrapper calls t.s, which returns values and an error
InnerCall ==
  /\ trPc = "inner"
  /\ sOp' = InnerOp(trOp)
  /\ sArgs' = PassArgs(trOp, trArgs)
  /\ sN' = sN + 1
  /\ \E v \in ArgValues, e \in ServerErrors : sRet' = [vals |-> v, err |-> e]
  /\ trPc' = "deferred"
  /\ UNCHANGED <<trOp, trArgs, spanName, spanState, trRet, trN, spanLog>>
  /\ UNCHANGED <<connVars, lnVars>>

\* the return statement: the deferred span.Finish() runs and the wrapper
\* returns
TraceReturn ==
  /\ trPc = "deferred"
  /\ spanState' = Finish(spanState)
  /\ trRet' = Returned(sRet)
  /\ trPc' = "idle"
  /\ UNCHANGED <<trOp, trArgs, spanName, sOp, sArgs, sN, sRet, trN, spanLog>>
  /\ UNCHANGED <<connVars, lnVars>>

NextTrace == TraceCall \/ InnerCall \/ TraceReturn

SpecTrace == InitServe /\ [][NextTrace]_vars

\* ================================================================== claims
\* the request of the current iteration has been dispatched
Dispatched(c) == pc[c] \in {"write", "wrote"}

\* C1: a T-message other than Tversion dispatched on a session whose
\* versioned flag is false is answered by an Rerror that carries the tag held
\* little-endian in the first two bytes of the request (header bytes 5 and
\* 6) and the message "Dispatch: <TypeName> not allowed before Tversion";
\* that Rerror is what is written.
GateReply ==
  \A c \in Conns :
    (Dispatched(c) /\ ~versioned[c] /\ l[c][5] \in TTypes \ {Tversion})
      => /\ b[c].kind = "R"
         /\ b[c].type = Rerror
         /\ b[c].tag = l[c][6] + 256 * l[c][7]
         /\ b[c].ename
              = "Dispatch: " \o RPCNames(l[c][5]) \o " not allowed before Tversion"
         /\ l[c][5] = Tattach
              => b[c].ename = "Dispatch: Tattach not allowed before Tversion"
         /\ pc[c] = "wrote"
              => wire[c][Len(wire[c])].tag = l[c][6] + 256 * l[c][7]

\* C1 witness: Tattach with tag 1 as the first frame got the gate's Rerror
GateReplyWitness ==
  /\ pc[1] = "wrote"
  /\ ~versioned[1]
  /\ l[1][5] = Tattach
  /\ <<l[1][6], l[1][7]>> = <<1, 0>>
  /\ b[1].type = Rerror
  /\ b[1].tag = 1
  /\ b[1].ename = "Dispatch: Tattach not allowed before Tversion"

\* the request of the current iteration is one the gate rejects
GatedRequest(c) ==
  /\ pc[c] \in {"readBody", "dispatch", "write", "wrote"}
  /\ l[c][5] # Tversion
  /\ ~versioned[c]

\* C2: the dispatch of a request that the gate rejects invokes no handler and
\* no NineServer operation, leaves versioned false and the msize as it was,
\* does not mark the connection dead and goes on to the write; no step of
\* the iteration of such a request changes the session.
GateFrame ==
  [][\A c \in Conns :
       /\ (GatedRequest(c) /\ pc[c] = "dispatch" /\ pc'[c] # "dispatch")
            => /\ srv'[c] = <<>> /\ ns'[c] = <<>>
               /\ dead'[c] = dead[c] /\ closed'[c] = closed[c]
               /\ pc'[c] = "write"
               /\ reqs'[c] = reqs[c] /\ wire'[c] = wire[c]
       /\ GatedRequest(c)
            => /\ versioned'[c] = versioned[c]
               /\ msize'[c] = msize[c]
               /\ nsCount'[c] = nsCount[c]]_vars

\* C2 witness: two requests in a row were rejected by the gate, and the
\* session is as it was at the start
GateFrameWitness ==
  /\ pc[1] = "wrote"
  /\ Len(reqs[1]) = 2 /\ Len(wire[1]) = 2
  /\ l[1][5] = Tattach
  /\ derr[1]
  /\ ~versioned[1] /\ ~dead[1] /\ nsCount[1] = 0 /\ msize[1] = ServerMax

\* the dispatch of the current request of c returns in this step
DispatchReturns(c) == pc[c] = "dispatch" /\ pc'[c] # "dispatch"

\* C3 as stated: versioned becomes true exactly when a Tversion completes
\* successfully (its reply is an Rversion); a Tversion whose handling fails
\* leaves the flag as it was.
VersionedOnlyOnSuccess ==
  [][\A c \in Conns :
       /\ DispatchReturns(c)
            => versioned'[c]
                 = (versioned[c] \/ (l[c][5] = Tversion /\ b'[c].type = Tversion + 1))
       /\ ~DispatchReturns(c) => versioned'[c] = versioned[c]]_vars

\* C3 amended: versioned becomes true exactly when a Tversion is dispatched,
\* whatever the outcome of its handling: after a Tversion whose handling
\* fails the flag is true.
VersionedOnDispatch ==
  [][\A c \in Conns :
       /\ DispatchReturns(c)
            => versioned'[c] = (versioned[c] \/ l[c][5] = Tversion)
       /\ ~DispatchReturns(c) => versioned'[c] = versioned[c]
       /\ (Dispatched(c) /\ l[c][5] = Tversion) => versioned[c]]_vars

\* C3 witness: the first frame was a Tversion whose handling failed, and the
\* flag is set
VersionedOnDispatchWitness ==
  /\ pc[1] = "wrote"
  /\ Len(reqs[1]) = 1
  /\ l[1][5] = Tversion
  /\ b[1].type = Rerror
  /\ versioned[1]

\* the replies written on c before position p answer request number j
RepliedBefore(c, j, p) == \E q \in 1..(p - 1) : wire[c][q].seq = j

\* when the Rflush at position p of the written log of c was written, every
\* request read before its Tflush under the flushed tag had been answered
FlushAfterReply(c, p) ==
  \A j \in 1..(wire[c][p].seq - 1) :
    reqs[c][j] = wire[c][p].oldtag => RepliedBefore(c, j, p)

\* C4 as stated: an Rflush is written only after the reply to oldtag, and
\* once it has been written no reply that carries oldtag is written on the
\* connection.
FlushSilencesTag ==
  \A c \in Conns : \A p \in DOMAIN wire[c] :
    wire[c][p].oldtag # NoTag
      => /\ FlushAfterReply(c, p)
         /\ \A q \in (p + 1)..Len(wire[c]) : wire[c][q].tag # wire[c][p].oldtag

\* C4 amended: an Rflush is written only after the reply to every request
\* read before its Tflush under oldtag, and once it has been written no reply
\* to a request read before that Tflush is written; a reply that carries
\* oldtag afterwards answers a request read after the Tflush.
FlushOrdering ==
  \A c \in Conns : \A p \in DOMAIN wire[c] :
    wire[c][p].oldtag # NoTag
      => /\ FlushAfterReply(c, p)
         /\ \A q \in (p + 1)..Len(wire[c]) : wire[c][q].seq > wire[c][p].seq

\* C4 witness: request 2 carried tag 1 and was answered, request 3 was a
\* Tflush of tag 1 and its Rflush was written, and request 4, which uses tag
\* 1 again, was answered after the Rflush
FlushOrderingWitness ==
  /\ Len(wire[1]) = 4
  /\ reqs[1][2] = 1
  /\ wire[1][2].seq = 2
  /\ wire[1][3].oldtag = 1 /\ wire[1][3].seq = 3 /\ wire[1][3].tag = 256
  /\ wire[1][4].tag = 1 /\ wire[1][4].seq = 4

\* C5: a frame whose size field is less than 7 is handed to no handler and
\* to no NineServer operation.
ShortFrameRejected ==
  \A c \in Conns :
    (l[c] # NoHdr /\ l[c][1] + 256 * l[c][2] + 65536 * l[c][3] + 16777216 * l[c][4] < 7)
      => srv[c] = <<>> /\ ns[c] = <<>>

\* C6: no body is read for a frame whose size field exceeds the msize of the
\* session, and the bytes buffered for one frame never exceed the msize.
OversizeRejected ==
  \A c \in Conns :
    b[c].kind = "T"
      => /\ l[c][1] + 256 * l[c][2] + 65536 * l[c][3] + 16777216 * l[c][4] <= msize[c]
         /\ 7 + b[c].n <= msize[c]

\* C7: a frame the server has written has a size field equal to the number
\* of bytes written, and that size does not exceed the msize of the session.
WrittenFrameBounded ==
  \A c \in Conns :
    pc[c] = "wrote" => b[c].size = b[c].len /\ b[c].size <= msize[c]

\* C8: when the dispatcher returns an error, serve neither marks the
\* connection dead nor closes it: it goes on to write the reply buffer, the
\* reply written is the one of that request, and after the write the loop
\* goes back to read the next header.
ErrorsNotTerminal ==
  [][\A c \in Conns :
       /\ (DispatchReturns(c) /\ derr'[c])
            => /\ pc'[c] = "write"
               /\ b'[c].kind = "R"
               /\ ~dead'[c] /\ ~closed'[c]
       /\ (pc[c] = "wrote" /\ derr[c])
            => /\ wire[c][Len(wire[c])] = [seq |-> Len(reqs[c]), tag |-> b[c].tag,
                                            oldtag |-> NoTag]
               /\ b[c].tag = l[c][6] + 256 * l[c][7]
               /\ ~dead[c] /\ ~closed[c]
       /\ (pc[c] = "wrote" /\ derr[c] /\ pc'[c] # "wrote")
            => pc'[c] = "readHeader" /\ ~dead'[c]]_vars

\* C8 witness: the first request was rejected by the gate (Dispatch returned
\* an error), its reply was written, and the header of a second frame has
\* been read
ErrorsNotTerminalWitness ==
  /\ pc[1] = "readBody"
  /\ Len(reqs[1]) = 2
  /\ Len(wire[1]) = 1 /\ wire[1][1].seq = 1
  /\ ~versioned[1]
  /\ ~dead[1]

\* the variables of connection c
ConnState(c) ==
  <<pc[c], dead[c], closed[c], versioned[c], msize[c], l[c], b[c], derr[c],
    srv[c], ns[c], nsCount[c], reqs[c], wire[c], cancelled[c], reqSpan[c],
    spFin[c], spanFin[c], fids[c]>>

\* C9: a header read that yields no header and a write that fails make the
\* connection dead and end the worker (the stream is closed) without writing
\* anything; a dead connection is one whose worker has ended, and nothing of
\* it changes afterwards: no frame is read, dispatched or written.
TransportTerminal ==
  /\ [](\A c \in Conns : dead[c] <=> pc[c] = "done")
  /\ [][\A c \in Conns :
          /\ (pc[c] = "readHeader" /\ pc'[c] # "readHeader" /\ l'[c] = NoHdr)
               => /\ dead'[c] /\ pc'[c] = "done" /\ closed'[c]
                  /\ wire'[c] = wire[c] /\ reqs'[c] = reqs[c]
          /\ (pc[c] = "write" /\ pc'[c] # "write" /\ wire'[c] = wire[c])
               => /\ dead'[c] /\ pc'[c] = "done" /\ closed'[c]
                  /\ reqs'[c] = reqs[c]
          /\ pc[c] = "done" => ConnState(c)' = ConnState(c)]_vars

\* C9 witness: the write of the second reply failed: the worker has ended,
\* the connection is dead and only the first reply is on the wire
TransportTerminalWitness ==
  /\ pc[1] = "done"
  /\ dead[1] /\ closed[1]
  /\ b[1].kind = "R"
  /\ Len(reqs[1]) = 2
  /\ Len(wire[1]) = 1

\* C10: on a versioned session a message whose type is none of the twelve
\* routed T-types is answered by the Rerror "Dispatch: <TypeName> not
\* supported"; Dispatch returns nil, no handler and no NineServer operation
\* is invoked, and the connection is neither dead nor closed.
UnsupportedReply ==
  \A c \in Conns :
    (Dispatched(c) /\ versioned[c]
       /\ l[c][5] \notin {Tversion, Tattach, Tflush, Twalk, Topen, Tcreate,
                          Tclunk, Tstat, Twstat, Tremove, Tread, Twrite})
      => /\ b[c].kind = "R"
         /\ b[c].type = Rerror
         /\ b[c].ename = "Dispatch: " \o RPCNames(l[c][5]) \o " not supported"
         /\ l[c][5] = Tauth => b[c].ename = "Dispatch: Tauth not supported"
         /\ l[c][5] = Tunknown => b[c].ename = "Dispatch:  not supported"
         /\ ~derr[c]
         /\ srv[c] = <<>> /\ ns[c] = <<>>
         /\ ~dead[c] /\ ~closed[c]

\* C10 witness: a Tauth on a versioned session got its Rerror written
UnsupportedReplyWitness ==
  /\ pc[1] = "wrote"
  /\ versioned[1]
  /\ l[1][5] = Tauth
  /\ b[1].type = Rerror
  /\ b[1].ename = "Dispatch: Tauth not supported"
  /\ ~derr[1]

\* C11: while Serve sleeps after the k-th temporary accept error in a row
\* (k >= 1, counted since the last successful accept or since Serve started)
\* the delay is min(5 ms * 2^(k-1), 1 s), so never below 5 ms nor above 1 s;
\* after the sleep Serve calls Accept again; a successful accept leaves the
\* delay at zero, so that the next temporary error sleeps 5 ms.
AcceptBackoff ==
  /\ [](\A ln \in Listeners :
          lnPc[ln] = "sleep"
            => /\ nTemp[ln] >= 1
               /\ tempDelay[ln]
                    = (IF 5 * 2 ^ (nTemp[ln] - 1) < 1000
                       THEN 5 * 2 ^ (nTemp[ln] - 1) ELSE 1000)
               /\ tempDelay[ln] >= 5 /\ tempDelay[ln] <= 1000)
  /\ [][\A ln \in Listeners :
          /\ (lnPc[ln] = "sleep" /\ lnPc'[ln] # "sleep") => lnPc'[ln] = "accept"
          /\ (\E c \in Conns : pc[c] = "idle" /\ pc'[c] # "idle")
               => (lnPc[ln] = "accept" => tempDelay'[ln] = 0 /\ nTemp'[ln] = 0)
          /\ (lnPc[ln] = "accept" /\ tempDelay[ln] = 0 /\ lnPc'[ln] = "sleep")
               => tempDelay'[ln] = 5]_vars

\* C11 witness: a stream has been accepted, and Serve now sleeps one second
\* after the ninth temporary error in a row
AcceptBackoffWitness ==
  /\ lnPc["ln1"] = "sleep"
  /\ nTemp["ln1"] = 9
  /\ tempDelay["ln1"] = 1000
  /\ pc[1] # "idle"

\* C12: when Accept returns an error that is not temporary, Serve neither
\* sleeps nor calls Accept again: it returns that error, and when it has
\* returned the listener is closed and is not in the tracked set.
FatalAcceptError ==
  /\ [](\A ln \in Listeners :
          /\ lnErr[ln] # NoErr <=> lnPc[ln] \in {"untrack", "close", "returned"}
          /\ lnPc[ln] = "returned"
               => /\ lnClosed[ln] /\ ln \notin tracked
                  /\ lnErr[ln] \in {"accept: invalid argument",
                                    "use of closed network connection"})
  /\ [][\A ln \in Listeners :
          /\ (lnPc[ln] = "accept" /\ lnErr'[ln] # NoErr)
               => /\ lnPc'[ln] \notin {"sleep", "accept"}
                  /\ tempDelay'[ln] = tempDelay[ln] /\ nTemp'[ln] = nTemp[ln]
                  /\ \A c \in Conns : pc'[c] = pc[c]
          /\ lnErr[ln] # NoErr
               => /\ lnErr'[ln] = lnErr[ln]
                  /\ lnPc'[ln] \notin {"sleep", "accept", "idle"}
                  /\ tempDelay'[ln] = tempDelay[ln]]_vars

\* C12 witness: after temporary errors Accept failed for good, and Serve has
\* returned that error
FatalAcceptErrorWitness ==
  /\ lnPc["ln1"] = "returned"
  /\ lnErr["ln1"] = "accept: invalid argument"
  /\ lnClosed["ln1"]
  /\ "ln1" \notin tracked
  /\ nTemp["ln1"] = 2

\* the first error of the sequence errs of Close results, or nil
RECURSIVE FirstCloseError(_)
FirstCloseError(errs) ==
  IF errs = <<>> THEN "nil"
  ELSE IF Head(errs) # "nil" THEN Head(errs) ELSE FirstCloseError(Tail(errs))

\* C13: when Shutdown returns, Close has been called on every listener that
\* was tracked when it took the lock, the tracked set is empty, and the
\* error returned is the first error a Close returned (nil when none
\* failed); no step of Shutdown changes a connection, and a connection is
\* closed only in the step in which its own worker ends.
ShutdownCloses ==
  [][/\ (shPc = "closing" /\ shPc' = "returned")
          => /\ \A ln \in shSnap : lnClosed'[ln]
             /\ tracked' = {}
             /\ Len(shCloses') = Cardinality(shSnap)
             /\ shErr' = FirstCloseError(shCloses')
     /\ (shPc' # shPc \/ shCloses' # shCloses) => connVars' = connVars
     /\ \A c \in Conns :
          (closed'[c] /\ ~closed[c])
            => /\ pc[c] \in {"readHeader", "readBody", "write"}
               /\ pc'[c] = "done"]_vars

\* C13 witness: Shutdown has closed both listeners, the second Close failed
\* and its error is returned, and the connection accepted before is in the
\* middle of a request
ShutdownClosesWitness ==
  /\ shPc = "returned"
  /\ shSnap = {"ln1", "ln2"}
  /\ Len(shCloses) = 2 /\ shCloses[1] = "nil" /\ shCloses[2] # "nil"
  /\ shErr = shCloses[2]
  /\ pc[1] = "write" /\ ~closed[1] /\ ~dead[1]

\* C14: an accept starts exactly one connection, whose worker is at the top
\* of its loop with a new session (versioned false, not dead, no buffer), and
\* changes no other connection; versioned of a connection changes only when
\* its own worker dispatches a Tversion; dead, versioned and the buffer of a
\* connection change only in steps of its own worker; so the first request
\* of a connection, when it is not a Tversion, is rejected by the gate
\* whatever the other connections have negotiated.
SessionPerConn ==
  /\ [](\A c \in Conns :
          (Dispatched(c) /\ Len(reqs[c]) = 1 /\ l[c][5] # Tversion)
            => /\ ~versioned[c]
               /\ b[c].type = Rerror
               /\ b[c].ename
                    = "Dispatch: " \o RPCNames(l[c][5]) \o " not allowed before Tversion")
  /\ [][\A c \in Conns :
          /\ (pc[c] = "idle" /\ pc'[c] # "idle")
               => /\ pc'[c] = "readHeader"
                  /\ ~versioned'[c] /\ ~dead'[c] /\ ~closed'[c]
                  /\ b'[c] = NoBuf /\ l'[c] = NoHdr /\ reqs'[c] = <<>>
                  /\ \A d \in Conns \ {c} : ConnState(d)' = ConnState(d)
          /\ versioned'[c] # versioned[c]
               => pc[c] = "dispatch" /\ l[c][5] = Tversion /\ versioned'[c]
          /\ (dead'[c] # dead[c] \/ versioned'[c] # versioned[c] \/ b'[c] # b[c])
               => pc[c] # "idle" /\ pc'[c] # pc[c]]_vars

\* C14 witness: connection 1 has negotiated its version, and the Tattach that
\* connection 2 sent as its first request has been rejected by the gate
SessionPerConnWitness ==
  /\ versioned[1] /\ pc[1] = "wrote" /\ b[1].type = Tversion + 1
  /\ pc[2] = "wrote" /\ Len(reqs[2]) = 1
  /\ l[2][5] = Tattach
  /\ ~versioned[2]
  /\ b[2].ename = "Dispatch: Tattach not allowed before Tversion"

\* C15: on each path by which the worker ends (the header read fails or is
\* short, the body read fails, the write fails) the stream is closed and the
\* context of the connection is cancelled in the step that ends the worker;
\* the context is cancelled at no other time, and once it is cancelled no
\* reply is written on the connection.
TerminationCleanup ==
  /\ [](\A c \in Conns :
          /\ pc[c] = "done" => closed[c] /\ cancelled[c]
          /\ cancelled[c] => pc[c] = "done")
  /\ [][\A c \in Conns :
          /\ (~dead[c] /\ dead'[c])
               => /\ pc[c] \in {"readHeader", "readBody", "write"}
                  /\ pc'[c] = "done"
                  /\ closed'[c] /\ cancelled'[c]
                  /\ wire'[c] = wire[c]
          /\ cancelled[c] => cancelled'[c] /\ wire'[c] = wire[c]]_vars

\* C15 witness: after one reply the body read of the second frame failed:
\* the worker has ended, the stream is closed and the context cancelled
TerminationCleanupWitness ==
  /\ pc[1] = "done"
  /\ Len(reqs[1]) = 2 /\ Len(wire[1]) = 1
  /\ l[1] # NoHdr /\ b[1] = NoBuf
  /\ closed[1] /\ cancelled[1]

\* C20: every span the worker starts is finished exactly once: the request
\* span of an iteration is finished when the next header is read and when the
\* worker has ended, and the two spans of the connection have been finished
\* once when the worker has ended, and not before.
SpansFinishedOnce ==
  \A c \in Conns :
    /\ pc[c] \in {"readHeader", "done"} => reqSpan[c] \in {"none", "finished"}
    /\ pc[c] = "done" => spFin[c] = 1 /\ spanFin[c] = 1
    /\ pc[c] # "done" => spFin[c] = 0 /\ spanFin[c] = 0

\* C16: when the worker of a connection has ended, no FID is bound in the
\* FID table of its session.
FidsReleased ==
  \A c \in Conns : pc[c] = "done" => \A f \in DOMAIN fids[c] : fids[c][f] = 0 - 1

\* the request of the current iteration of c is a message of type t that
\* Dispatch is returning from in this step
Handles(c, t) == DispatchReturns(c) /\ l[c][5] = t

\* C17: a Tversion is never rejected by the gate, whatever the state of the
\* session (versioned or not, FIDs bound or not): it is handed to
\* SrvRversion; when an Rversion answers it the FID table of the session is
\* empty, and when that Rversion has been written no request is pending:
\* every request read has been answered.
VersionResets ==
  /\ [](\A c \in Conns :
          (Dispatched(c) /\ l[c][5] = Tversion)
            => /\ srv[c] = <<"SrvRversion">>
               /\ b[c].ename # "Dispatch: Tversion not allowed before Tversion"
               /\ b[c].type = Tversion + 1
                    => /\ \A f \in DOMAIN fids[c] : fids[c][f] = 0 - 1
                       /\ pc[c] = "wrote" => Len(wire[c]) = Len(reqs[c]))
  /\ [][\A c \in Conns :
          (Handles(c, Tversion) /\ b'[c].type = Tversion + 1)
            => \A f \in DOMAIN fids[c] : fids'[c][f] = 0 - 1]_vars

\* C17 witness: the third request of a session with a FID bound was a
\* Tversion; it was answered by an Rversion and the FID table is empty
VersionResetsWitness ==
  /\ pc[1] = "wrote"
  /\ Len(reqs[1]) = 3 /\ Len(wire[1]) = 3
  /\ nsCount[1] = 3
  /\ l[1][5] = Tversion
  /\ b[1].type = Tversion + 1
  /\ \A f \in DOMAIN fids[1] : fids[1][f] = 0 - 1

\* C18: when a Tclunk that carries fid f has been handled, f is not in the
\* FID table of the session, whether the reply is an Rclunk or an Rerror, and
\* the other FIDs are as they were.
ClunkRemoves ==
  [][\A c \in Conns :
       (Handles(c, Tclunk) /\ b[c].n > 0 /\ b[c].body.kind = "fid")
         => /\ fids'[c][b[c].body.fid] = 0 - 1
            /\ \A g \in DOMAIN fids[c] \ {b[c].body.fid} : fids'[c][g] = fids[c][g]]_vars

\* C18 witness: the Tclunk of a bound FID was answered by an Rerror with the
\* error of the backend, and the FID is gone
ClunkRemovesWitness ==
  /\ pc[1] = "wrote"
  /\ Len(reqs[1]) = 3
  /\ l[1][5] = Tclunk
  /\ b[1].type = Rerror /\ b[1].ename = "permission denied"
  /\ \A f \in DOMAIN fids[1] : fids[1][f] = 0 - 1

\* a Twalk with decodable fields is being answered in this step
HandlesWalk(c) == Handles(c, Twalk) /\ b[c].n > 0 /\ b[c].body.kind = "walk"

\* what every answer to a Twalk of at most 16 names obeys: at most 16 qids
\* and no more than names; an Rwalk without qids only for a walk without
\* names; newfid is bound by the walk only when the reply is an Rwalk with a
\* qid for every name, and then to the file that many names below the file
\* of fid; the FIDs other than newfid are as they were
WalkReply(c) ==
  LET w == b[c].body
      r == b'[c]
  IN  (HandlesWalk(c) /\ w.n <= 16)
        => /\ r.nqid <= 16 /\ r.nqid <= w.n
           /\ r.type \in {Rerror, Twalk + 1}
           /\ r.type = Rerror => r.nqid = 0 /\ fids'[c] = fids[c]
           /\ (r.type = Twalk + 1 /\ r.nqid = 0) => w.n = 0
           /\ (r.type = Twalk + 1 /\ r.nqid < w.n) => fids'[c] = fids[c]
           /\ fids'[c][w.newfid] # fids[c][w.newfid]
                => /\ r.type = Twalk + 1 /\ r.nqid = w.n
                   /\ fids'[c][w.newfid] = fids[c][w.fid] + w.n
           /\ \A g \in DOMAIN fids[c] \ {w.newfid} : fids'[c][g] = fids[c][g]

\* C19 as stated: the answers to a Twalk obey the above, and the source fid
\* refers afterwards to the file it referred to before.
WalkKeepsSource ==
  [][\A c \in Conns :
       /\ WalkReply(c)
       /\ HandlesWalk(c) => fids'[c][b[c].body.fid] = fids[c][b[c].body.fid]]_vars

\* C19 amended: the answers to a Twalk obey the above; the source fid refers
\* afterwards to the file it referred to before when newfid is another FID,
\* and also when newfid is fid itself unless every one of n >= 1 names was
\* walked: fid then refers to the final element.
WalkBinds ==
  [][\A c \in Conns :
       /\ WalkReply(c)
       /\ (HandlesWalk(c) /\ b[c].body.newfid # b[c].body.fid)
            => fids'[c][b[c].body.fid] = fids[c][b[c].body.fid]
       /\ (HandlesWalk(c) /\ b[c].body.newfid = b[c].body.fid
             /\ fids'[c][b[c].body.fid] # fids[c][b[c].body.fid])
            => /\ b[c].body.n >= 1
               /\ b'[c].type = Twalk + 1 /\ b'[c].nqid = b[c].body.n]_vars

\* C19 witness: a Twalk of two names from fid 0 to newfid 1 found only the
\* first: the Rwalk carries one qid, fid 1 is not bound and fid 0 is still at
\* the root
WalkBindsWitness ==
  /\ pc[1] = "wrote"
  /\ l[1][5] = Twalk
  /\ b[1].type = Twalk + 1 /\ b[1].nqid = 1
  /\ fids[1][0] = 0 /\ fids[1][1] = 0 - 1

\* the requests of connection c read and not yet answered on the wire
InFlight(c) == Len(reqs[c]) - Len(wire[c])

\* C21: a connection has at most one request in flight; the k-th reply on
\* the wire answers the k-th request read; a header is read only when every
\* request read before has its reply on the wire; and the step that
\* dispatches a frame leads to the one c.Write call of the iteration, which
\* either puts the whole reply buffer on the wire, once, or fails and ends
\* the connection.
OneAtATime ==
  /\ [](\A c \in Conns :
          /\ InFlight(c) \in {0, 1}
          /\ \A k \in 1..Len(wire[c]) : wire[c][k].seq = k)
  /\ [][\A c \in Conns :
          /\ reqs'[c] # reqs[c] => InFlight(c) = 0
          /\ (pc[c] = "dispatch" /\ pc'[c] # "dispatch") => pc'[c] = "write"
          /\ (pc[c] = "write" /\ pc'[c] # "write")
               => \/ /\ pc'[c] = "wrote"
                     /\ wire'[c] = Append(wire[c], WireEntry(Len(reqs[c]), b[c]))
                  \/ /\ pc'[c] = "done" /\ dead'[c] /\ wire'[c] = wire[c]
          /\ wire'[c] # wire[c] => pc[c] = "write"]_vars

\* C21 witness: three requests were read and answered in turn, the second
\* with the error reply of a failed dispatch
OneAtATimeWitness ==
  /\ pc[1] = "wrote"
  /\ Len(reqs[1]) = 3 /\ Len(wire[1]) = 3
  /\ derr[1]

\* C22: when the body read of a frame is over, the frame goes to the
\* dispatcher only with all the size-7 body bytes its header announced; a
\* frame whose stream ended before that is never dispatched and never
\* answered: the connection terminates.
TruncatedNotDispatched ==
  [][\A c \in Conns :
       (pc[c] = "readBody" /\ pc'[c] # "readBody")
         => \/ /\ pc'[c] = "dispatch"
               /\ b'[c].n = BodyLimit(HdrSize(l[c]))
            \/ /\ pc'[c] = "done" /\ dead'[c] /\ closed'[c]
               /\ wire'[c] = wire[c] /\ nsCount'[c] = nsCount[c]]_vars

\* the handler the claim names for each of the twelve routed T-types
HandlerOfType ==
  {<<Tversion, "SrvRversion">>, <<Tattach, "SrvRattach">>,
   <<Tflush, "SrvRflush">>, <<Twalk, "SrvRwalk">>, <<Topen, "SrvRopen">>,
   <<Tcreate, "SrvRcreate">>, <<Tclunk, "SrvRclunk">>, <<Tstat, "SrvRstat">>,
   <<Twstat, "SrvRwstat">>, <<Tremove, "SrvRremove">>, <<Tread, "SrvRread">>,
   <<Twrite, "SrvRwrite">>}

\* C23: on a versioned session the dispatch of a message of one of the
\* twelve routed types invokes the handler of that type, once, and no other
\* handler, and what Dispatch leaves in the buffer and returns as its error
\* is what that handler left and returned; a message of any other type
\* invokes no handler.
RoutingClosed ==
  [][\A c \in Conns :
       (DispatchReturns(c) /\ versioned[c])
         => /\ \A p \in HandlerOfType :
                 l[c][5] = p[1]
                   => /\ srv'[c] = <<p[2]>>
                      /\ \E o \in SrvR(p[1], msize[c], fids[c], b[c]) :
                           /\ o.srv = <<p[2]>>
                           /\ b'[c] = o.b /\ derr'[c] = o.err
            /\ (\A p \in HandlerOfType : l[c][5] # p[1]) => srv'[c] = <<>>]_vars

\* C23 witness: on a versioned session a Twstat was handed to SrvRwstat,
\* whose error Dispatch returned
RoutingClosedWitness ==
  /\ pc[1] = "write"
  /\ versioned[1] /\ Len(reqs[1]) = 2
  /\ l[1][5] = Twstat
  /\ srv[1] = <<"SrvRwstat">>
  /\ derr[1]

\* the reply that Dispatch leaves in the buffer of c in this step is the
\* Rerror of the gate
GateRejects(c) ==
  /\ DispatchReturns(c)
  /\ srv'[c] = <<>>
  /\ b'[c].type = Rerror
  /\ b'[c].ename = GateMsg(l[c][5])

\* C24: no step sets the versioned flag of a session back to false; the
\* dispatch of a Tversion leaves it true whether its handling fails or not,
\* and whether the flag was set before or not; so the gate rejects a request
\* only on a session whose flag is false, on which no Tversion has been
\* dispatched, and a session on which one has been dispatched is versioned
\* for good.
VersionedMonotonic ==
  /\ [][\A c \in Conns :
          /\ versioned[c] => versioned'[c]
          /\ Handles(c, Tversion) => versioned'[c]
          /\ GateRejects(c) => ~versioned[c] /\ ~versioned'[c]
          /\ (versioned[c] /\ DispatchReturns(c)) => ~GateRejects(c)]_vars
  /\ [](\A c \in Conns :
          (~versioned[c] /\ Dispatched(c)) => l[c][5] # Tversion)

\* C24 witness: the third request, a Tstat, went to its handler and to the
\* backend, the first backend call of the session: the Tversion dispatched
\* before it failed without one, and the flag is still set
VersionedMonotonicWitness ==
  /\ pc[1] = "wrote"
  /\ Len(reqs[1]) = 3
  /\ nsCount[1] = 1
  /\ l[1][5] = Tstat
  /\ srv[1] = <<"SrvRstat">> /\ ns[1] = <<"Rstat">>
  /\ versioned[1]

\* C25: once Shutdown has returned, no Serve call of the NetListener accepts
\* a connection any more, whether Shutdown took the lock before or after
\* that Serve registered its listener: no connection slot leaves "idle",
\* and a Serve that is in its accept loop is on a closed listener.
ShutdownStopsServe ==
  /\ [][shPc = "returned"
          => \A c \in Conns : pc[c] = "idle" => pc'[c] = "idle"]_vars
  /\ [](shPc = "returned"
          => \A ln \in Listeners : lnPc[ln] = "accept" => lnClosed[ln])

\* C26: during a call of an operation of the wrapper the wrapped server is
\* called once, with the same operation and the same arguments; the wrapper
\* returns the values and the error the wrapped server returned, whether
\* that error is nil or not; and the span started for the call, the only
\* one, is finished when the wrapper returns, not before and not twice.
TraceEquivalent ==
  /\ [](/\ sN <= 1
        /\ trPc \in {"inner", "deferred"} => spanState = "started"
        /\ (trPc = "idle" /\ trN > 0)
             => /\ sN = 1 /\ sOp = trOp /\ sArgs = trArgs
                /\ trRet = sRet /\ sRet # NoRet
                /\ spanState = "finished")
  /\ [][/\ (trPc = "inner" /\ trPc' # "inner")
             => sOp' = trOp /\ sArgs' = trArgs /\ sN' = 1
        /\ (trPc = "deferred" /\ trPc' # "deferred")
             => trRet' = sRet /\ spanState' = "finished"
        /\ trN' = trN => spanLog' = spanLog]_vars

\* C26 witness: Rattach was called on the wrapper after another operation;
\* the wrapped server failed, the wrapper has returned its error and the
\* span is finished
TraceEquivalentWitness ==
  /\ trPc = "idle" /\ trN = 2
  /\ trOp = "Rattach" /\ sOp = "Rattach"
  /\ trArgs = [i \in 1..4 |-> IF i = 3 THEN 1 ELSE 0] /\ sArgs = trArgs
  /\ trRet.err = "permission denied"
  /\ spanState = "finished"

\* C27: the span of every operation of the wrapper carries the name of that
\* operation, so the spans of two different operations have different
\* names.
SpanNamesDistinct ==
  /\ \A p \in spanLog : p[2] = p[1]
  /\ \A p, q \in spanLog : p[2] = q[2] => p[1] = q[1]

====
